---- MODULE Spec2Model ----
(***************************************************************************)
(* Model of mercury200_multipoll.py: polling of Mercury-200 meters behind  *)
(* RS-485/Ethernet gateways.  Bytes are integers 0..255, byte strings are  *)
(* sequences of bytes.  Time is counted in hundredths of a second.         *)
(***************************************************************************)
EXTENDS Integers, Sequences, FiniteSets, TLC

VARIABLES
    plan,       \* POLL_MAP: port -> sequence of serials
    retry,      \* RETRY, attempts per command
    pc,         \* position of the script
    portIdx,    \* index into sorted(POLL_MAP.items())
    devIdx,     \* index into serials of the current port
    socks,      \* ports whose socket is open (created and not closed)
    opened,     \* number of create_connection successes so far
    peerClosed, \* the peer has closed the current connection
    wire,       \* segments sent by the peer and not yet returned by recv
    cmd,        \* cmd_hex of the running send_frame: "63" or "27"
    att,        \* iteration of "for _ in range(RETRY)" being executed (1-based)
    now,        \* time.time(), relative to the entry of send_frame
    deadline,   \* local deadline of send_frame
    resp,       \* local resp of send_frame
    ret,        \* value returned by send_frame
    r63,        \* poll loop's r63, while the iteration that assigned it runs
    uip,        \* poll loop's U, I, P (tenths of V, hundredths of A, W), likewise
    out,        \* rows printed for devices, in order
    errs,       \* ports for which "соединение ERR" was printed
    sent,       \* frames handed to sendall successfully, in order
    peer,       \* what the peer answered to the latest request, and all it
                \* sent in answer to the exchange under way (bookkeeping)
    faults,     \* number of transport faults so far (bookkeeping)
    arg,        \* argument of a function applied on its own, or the scripted peer
    val         \* value of the function applied to arg

vars == <<plan, retry, pc, portIdx, devIdx, socks, opened, peerClosed, wire, cmd,
          att, now, deadline, resp, ret, r63, uip, out, errs, sent, peer,
          faults, arg, val>>

----------------------------------------------------------------------------
(* Bounds of the model *)

\* Largest value of RETRY explored.
MaxRetry == 2
\* Largest number of transport faults in one pass: refused connections, send
\* errors, late segments, and replies other than the whole good response.
MaxFaults == 2

(* Program constants *)

\* TIMEOUT = 0.8 s, in hundredths of a second.
TIMEOUT == 80
\* sock.settimeout(0.2), in hundredths of a second.
SOCK_TIMEOUT == 20
\* len(resp) >= 6
MIN_RESP == 6
\* 0xA001
POLY == 40961
\* 0xFFFF
CRC_INIT == 65535

\* send_frame's None.  A byte string never holds -1.
None == <<-1>>
\* ValueError raised by int() inside bcd_to_int.
ValueError == -1

----------------------------------------------------------------------------
(* Byte-string helpers: Python slicing b[lo:hi] with clamping and negative  *)
(* indices.                                                                 *)

Min(a, b) == IF a < b THEN a ELSE b
Max(a, b) == IF a > b THEN a ELSE b

PyIndex(n, i) == IF i < 0 THEN Max(n + i, 0) ELSE Min(i, n)

PySlice(b, lo, hi) ==
    LET l == PyIndex(Len(b), lo)
        h == PyIndex(Len(b), hi)
    IN  IF l >= h THEN <<>> ELSE SubSeq(b, l + 1, h)

\* b[lo:]
PyFrom(b, lo) == PySlice(b, lo, Len(b))

----------------------------------------------------------------------------
(* crc16_modbus *)

\* a ^ b on n-bit operands, bit by bit
RECURSIVE XorBits(_, _, _)
XorBits(a, b, n) ==
    IF n = 0 THEN 0
    ELSE (((a % 2) + (b % 2)) % 2) + 2 * XorBits(a \div 2, b \div 2, n - 1)

\* the table of a ^ b for 4-bit operands, computed once: XorNibble[a+1][b+1]
RECURSIVE XorRow(_, _)
XorRow(a, n) ==
    IF n = 0 THEN <<>> ELSE Append(XorRow(a, n - 1), XorBits(a, n - 1, 4))

RECURSIVE XorRows(_)
XorRows(n) == IF n = 0 THEN <<>> ELSE Append(XorRows(n - 1), XorRow(n - 1, 16))

XorNibble == XorRows(16)

\* a ^ b on 16-bit operands, nibble by nibble.  The operands are evaluated
\* once, as x and y.
Xor16(a, b) ==
    CHOOSE r \in
        {   XorNibble[(x % 16) + 1][(y % 16) + 1]
          + 16 * XorNibble[((x \div 16) % 16) + 1][((y \div 16) % 16) + 1]
          + 256 * XorNibble[((x \div 256) % 16) + 1][((y \div 256) % 16) + 1]
          + 4096 * XorNibble[((x \div 4096) % 16) + 1][((y \div 4096) % 16) + 1]
          : x \in {a}, y \in {b} } : TRUE

\* for _ in range(8): crc = (crc >> 1) ^ 0xA001 if crc & 1 else crc >> 1
RECURSIVE CrcBits(_, _)
CrcBits(crc, n) ==
    CHOOSE r \in
        { IF n = 0 THEN c
          ELSE IF (c % 2) = 1 THEN CrcBits(Xor16(c \div 2, POLY), n - 1)
               ELSE CrcBits(c \div 2, n - 1)
          : c \in {crc} } : TRUE

\* for ch in buf: crc ^= ch, then the eight shifts.  The register is
\* evaluated once per byte, as c, and stays a 16-bit value.
RECURSIVE CrcFold(_, _, _)
CrcFold(buf, i, crc) ==
    CHOOSE r \in
        { IF i > Len(buf) \/ c \notin 0..CRC_INIT THEN c
          ELSE CrcFold(buf, i + 1, CrcBits(Xor16(c, buf[i]), 8))
          : c \in {crc} } : TRUE

\* the register packed high byte first
crc16_BigEndian(buf) ==
    CHOOSE r \in {<<crc \div 256, crc % 256>> : crc \in {CrcFold(buf, 1, CRC_INIT)}} :
        TRUE

\* struct.pack('<H', crc): low byte, high byte
crc16_modbus(buf) ==
    CHOOSE r \in {<<crc % 256, crc \div 256>> : crc \in {CrcFold(buf, 1, CRC_INIT)}} :
        TRUE

----------------------------------------------------------------------------
(* bcd_to_int *)

\* the digits of each byte taken low nibble first
HexDigits_LowFirst(b) ==
    [i \in 1..(2 * Len(b)) |->
        IF (i % 2) = 1 THEN b[(i + 1) \div 2] % 16 ELSE b[i \div 2] \div 16]

\* ''.join(f'{byte>>4:X}{byte&0xF:X}' for byte in b), as a sequence of digit
\* values 0..15
HexDigits(b) ==
    [i \in 1..(2 * Len(b)) |->
        IF (i % 2) = 1 THEN b[(i + 1) \div 2] \div 16 ELSE b[i \div 2] % 16]

\* In the operators below an operand is evaluated once, under the name given
\* to it in the set it ranges over.

RECURSIVE LStrip0(_)
LStrip0(s) ==
    CHOOSE r \in
        { IF t # <<>> /\ Head(t) = 0 THEN LStrip0(Tail(t)) ELSE t
          : t \in {s} } : TRUE

RECURSIVE DecValue(_, _)
DecValue(s, acc) ==
    CHOOSE r \in
        { IF t = <<>> THEN a ELSE DecValue(Tail(t), 10 * a + Head(t))
          : t \in {s}, a \in {acc} } : TRUE

\* int(s) for a string of the characters 0-9A-F
PyInt(s) ==
    CHOOSE r \in
        { IF \E i \in 1..Len(t) : t[i] > 9 THEN ValueError ELSE DecValue(t, 0)
          : t \in {s} } : TRUE

bcd_to_int(b) ==
    CHOOSE r \in
        { PyInt(IF s = <<>> THEN <<0>> ELSE s)
          : s \in {LStrip0(HexDigits(b))} } : TRUE

----------------------------------------------------------------------------
(* parse_63 / parse_27.  The divisions by 10 and 100 are kept as the unit   *)
(* of the component: U in tenths of a volt, I in hundredths of an ampere,   *)
(* T1 and T2 in hundredths of a kWh.  An exception in any component         *)
(* propagates.                                                              *)

parse_63(p) ==
    CHOOSE r \in
        { IF ValueError \in {u, i, w} THEN <<ValueError>> ELSE <<u, i, w>>
          : u \in {bcd_to_int(PySlice(p, 0, 2))},
            i \in {bcd_to_int(PySlice(p, 2, 4))},
            w \in {bcd_to_int(PySlice(p, 4, 7))} } : TRUE

parse_27(p) ==
    CHOOSE r \in
        { IF ValueError \in {t1, t2} THEN <<ValueError>> ELSE <<t1, t2>>
          : t1 \in {bcd_to_int(PySlice(p, 0, 4))},
            t2 \in {bcd_to_int(PySlice(p, 4, 8))} } : TRUE

----------------------------------------------------------------------------
(* The poll plan and the request frame *)

\* Plans given to the script (POLL_MAP, or the content of serials.txt).
\* POLL_MAP as written in the script: one port, two meters
PlanA == (20003 :> <<548973, 548974>>)
\* a serials.txt with two ports, listed in descending order
PlanB == (20004 :> <<548974>>) @@ (20003 :> <<548973>>)

Plans == {PlanA, PlanB}

RetryValues == 1..MaxRetry

RECURSIVE SortedSeq(_)
SortedSeq(S) ==
    IF S = {} THEN <<>>
    ELSE LET m == CHOOSE x \in S : \A y \in S : x <= y
         IN  <<m>> \o SortedSeq(S \ {m})

\* the ports taken from the largest to the smallest
SortedPorts_Descending(p) ==
    LET q == SortedSeq(DOMAIN p) IN [i \in 1..Len(q) |-> q[Len(q) + 1 - i]]

\* the keys of sorted(POLL_MAP.items())
SortedPorts(p) == SortedSeq(DOMAIN p)

\* bytes.fromhex(cmd_hex)
CmdByte(c) == IF c = "63" THEN 99 ELSE 39

\* bytes.fromhex(f'{int(serial):08X}'): four bytes, big-endian
AddrBytes(serial) ==
    << (serial \div 16777216) % 256, (serial \div 65536) % 256,
       (serial \div 256) % 256, serial % 256 >>

\* raw = bytes.fromhex(addr_hex + cmd_hex)
Raw(serial, c) == AddrBytes(serial) \o <<CmdByte(c)>>

\* frame = raw + crc16_modbus(raw)
Frame(serial, c) == Raw(serial, c) \o crc16_modbus(Raw(serial, c))

----------------------------------------------------------------------------
(* The peer: a gateway with meters behind it.  To a request it answers      *)
(* nothing, or a response frame: echo of address and command, payload,      *)
(* checksum.                                                                *)

Sealed(b) == b \o crc16_modbus(b)

\* 23.0 V, 1.00 A, 500 W
GoodPayload63 == <<2, 48, 1, 0, 0, 5, 0>>
\* 123.45 kWh, 678.90 kWh
GoodPayload27 == <<0, 1, 35, 69, 0, 6, 120, 144>>
\* payloads shorter than the decoders read
ShortPayload == <<2, 48, 1>>
\* payloads with the nibble 0xA
HexPayload63 == <<2, 58, 1, 0, 0, 5, 0>>
HexPayload27 == <<0, 1, 35, 74, 0, 6, 120, 144>>

GoodPayload(c) == IF c = "63" THEN GoodPayload63 ELSE GoodPayload27
HexPayload(c) == IF c = "63" THEN HexPayload63 ELSE HexPayload27

GoodReply(serial, c) == Sealed(Raw(serial, c) \o GoodPayload(c))

\* a frame damaged on the line: its last byte differs
Damaged(f) == SubSeq(f, 1, Len(f) - 1) \o <<(f[Len(f)] + 1) % 256>>

AllSerials ==
    UNION {UNION {{p[k][i] : i \in 1..Len(p[k])} : k \in DOMAIN p} : p \in Plans}

\* The stream delivers a reply in segments; one recv returns one segment.
\* A reply arrives whole, or its first 6 bytes and then the rest, or byte by
\* byte for the first 5 bytes and then the rest.
Whole(f) == <<f>>
Split(f) == <<SubSeq(f, 1, 6), SubSeq(f, 7, Len(f))>>
Trickle(f) ==
    [i \in 1..6 |-> IF i < 6 THEN <<f[i]>> ELSE SubSeq(f, 6, Len(f))]

Cmds == {"63", "27"}

\* what the peer may put on the stream in answer to a request: nothing, the
\* response with a good payload in each segmentation, or whole frames that
\* are damaged, short or not BCD.  intact: the bytes are the good response.
Replies(s, c) ==
    LET good == GoodReply(s, c) IN
    { [segs |-> <<>>, intact |-> FALSE],
      [segs |-> Whole(good), intact |-> TRUE],
      [segs |-> Split(good), intact |-> TRUE],
      [segs |-> Trickle(good), intact |-> TRUE],
      [segs |-> Whole(Damaged(good)), intact |-> FALSE],
      [segs |-> Whole(Sealed(Raw(s, c) \o ShortPayload)), intact |-> FALSE],
      [segs |-> Whole(Sealed(Raw(s, c) \o HexPayload(c))), intact |-> FALSE] }

\* the replies and the request frames of every meter of the plans, computed
\* once
ReplyTable == {<<s, c, Replies(s, c)>> : s \in AllSerials, c \in Cmds}
FrameTable == {<<s, c, Frame(s, c)>> : s \in AllSerials, c \in Cmds}

PeerReplies(s, c) == (CHOOSE t \in ReplyTable : t[1] = s /\ t[2] = c)[3]
FrameOf(s, c) == (CHOOSE t \in FrameTable : t[1] = s /\ t[2] = c)[3]

\* the reply is the good response in one piece
Faultless(rep) == rep.intact /\ Len(rep.segs) = 1

\* the bytes of a sequence of segments
RECURSIVE Flat(_)
Flat(segs) == IF segs = <<>> THEN <<>> ELSE Head(segs) \o Flat(Tail(segs))

\* how long a recv that returns data may have waited: less than the socket
\* timeout
Delays == {0, SOCK_TIMEOUT - 1}

\* sock.recv(256)
RECV_MAX == 256

----------------------------------------------------------------------------
(* State of the script *)

\* '-' printed in place of a missing field
Dash == -2

Ports == SortedPorts(plan)
CurPort == Ports[portIdx]
Serials == plan[CurPort]
CurSerial == Serials[devIdx]

\* positions inside send_frame
InSendFrame == pc \in {"sendall", "recv"}

\* nothing is applied on its own while the script runs
NoArg == [fn |-> "none", in |-> <<>>]
NoVal == [of |-> "none"]

\* the state in which the poll loop is entered, for a plan of P
InitScript(P, R) ==
    /\ plan \in P
    /\ retry \in R
    /\ pc = "connect"
    /\ portIdx = 1
    /\ devIdx = 1
    /\ socks = {}
    /\ opened = 0
    /\ peerClosed = FALSE
    /\ wire = <<>>
    /\ cmd = "63"
    /\ att = 0
    /\ now = 0
    /\ deadline = 0
    /\ resp = <<>>
    /\ ret = None
    /\ r63 = None
    /\ uip = <<0, 0, 0>>
    /\ out = <<>>
    /\ errs = <<>>
    /\ sent = <<>>
    /\ peer = [reply |-> <<>>, intact |-> FALSE, clean |-> FALSE, own |-> <<>>]
    /\ faults = 0

Init ==
    /\ InitScript(Plans, RetryValues)
    /\ arg = NoArg
    /\ val = NoVal

----------------------------------------------------------------------------
(* for port, serials in sorted(POLL_MAP.items()): connection set-up         *)

\* a transport fault may still happen
MayFail == faults < MaxFaults

\* the "continue" of the except branch left out: the script falls into the
\* loop over the serials
AfterConnectErr_FallThrough == "device"

\* where the script goes after "except OSError" of the connection: continue
\* with the next port
AfterConnectErr == "connect"

\* socket.create_connection succeeds; sock.settimeout(0.2)
ConnectOk ==
    /\ pc = "connect"
    /\ portIdx <= Len(Ports)
    /\ socks' = socks \cup {CurPort}
    /\ opened' = opened + 1
    /\ peerClosed' = FALSE
    /\ wire' = <<>>
    /\ devIdx' = 1
    /\ pc' = "device"
    /\ UNCHANGED <<arg, val, plan, retry, portIdx, cmd, att, now, deadline, resp, ret,
                   r63, uip, out, errs, sent, peer, faults>>

\* socket.create_connection raises OSError: one line is printed, continue
ConnectErr ==
    /\ pc = "connect"
    /\ portIdx <= Len(Ports)
    /\ MayFail
    /\ faults' = faults + 1
    /\ errs' = Append(errs, CurPort)
    /\ pc' = AfterConnectErr
    /\ portIdx' = IF AfterConnectErr = "connect" THEN portIdx + 1 ELSE portIdx
    /\ devIdx' = 1
    /\ UNCHANGED <<arg, val, plan, retry, socks, opened, peerClosed, wire, cmd, att, now,
                   deadline, resp, ret, r63, uip, out, sent, peer>>

\* the loop over the ports is exhausted: the closing line is printed
Finish ==
    /\ pc = "connect"
    /\ portIdx > Len(Ports)
    /\ pc' = "done"
    /\ UNCHANGED <<arg, val, plan, retry, portIdx, devIdx, socks, opened, peerClosed,
                   wire, cmd, att, now, deadline, resp, ret, r63, uip, out,
                   errs, sent, peer, faults>>

----------------------------------------------------------------------------
(* for serial in serials                                                    *)

\* entry of send_frame(sock, addr_hex, c): "for _ in range(RETRY)" either
\* starts its first iteration or, for RETRY = 0, falls through to return None
EnterSendFrame(c) ==
    /\ cmd' = c
    /\ now' = 0
    /\ deadline' = 0
    /\ resp' = <<>>
    /\ IF retry >= 1
       THEN att' = 1 /\ pc' = "sendall" /\ ret' = ret
       ELSE att' = 0 /\ pc' = "ret" /\ ret' = None

\* next serial of the port: r63 = send_frame(sock, addr_hex, '63')
ForSerial ==
    /\ pc = "device"
    /\ devIdx <= Len(Serials)
    /\ EnterSendFrame("63")
    /\ UNCHANGED <<arg, val, plan, retry, portIdx, devIdx, socks, opened, peerClosed,
                   wire, r63, uip, out, errs, sent, peer, faults>>

\* the serials of the port are exhausted: sock.close(), next port
Close ==
    /\ pc = "device"
    /\ devIdx > Len(Serials)
    /\ socks' = socks \ {CurPort}
    /\ portIdx' = portIdx + 1
    /\ devIdx' = 1
    /\ wire' = <<>>
    /\ peerClosed' = FALSE
    /\ pc' = "connect"
    /\ UNCHANGED <<arg, val, plan, retry, opened, cmd, att, now, deadline, resp, ret,
                   r63, uip, out, errs, sent, peer, faults>>

----------------------------------------------------------------------------
(* send_frame *)

NoPeer == [reply |-> <<>>, intact |-> FALSE, clean |-> FALSE, own |-> <<>>]

\* "return v" of send_frame, at time t: its locals are gone
Return(v, t) ==
    /\ ret' = v
    /\ pc' = "ret"
    /\ resp' = <<>>
    /\ deadline' = 0
    /\ now' = t
    /\ att' = att

\* what follows a break of the while loop, or its end, at time t: the next
\* iteration of "for _ in range(RETRY)", or "return None" behind the loop
EndAttempt(t) ==
    IF att < retry
    THEN /\ att' = att + 1
         /\ pc' = "sendall"
         /\ now' = t
         /\ UNCHANGED <<ret, resp, deadline>>
    ELSE Return(None, t)

\* the deadline kept from the entry of send_frame, where the clock reads 0,
\* instead of being taken after each send
Deadline_OncePerExchange(t) == TIMEOUT

\* deadline = time.time() + TIMEOUT, the clock reading t
Deadline(t) == t + TIMEOUT

\* the frame handed to sendall
Request ==
    [port |-> CurPort, serial |-> CurSerial, cmd |-> cmd,
     frame |-> FrameOf(CurSerial, cmd)]

\* sock.sendall(frame) succeeds; deadline = time.time() + TIMEOUT; resp = b''.
\* The peer answers the request with one of its replies, or closes.
SendOk ==
    /\ pc = "sendall"
    /\ deadline' = Deadline(now)
    /\ resp' = <<>>
    /\ pc' = "recv"
    /\ sent' = Append(sent, Request)
    /\ IF peerClosed
       THEN /\ peer' = [NoPeer EXCEPT !.own = peer.own]
            /\ UNCHANGED <<wire, peerClosed, faults>>
       ELSE \/ \E rep \in PeerReplies(CurSerial, cmd) :
                 /\ ~Faultless(rep) => MayFail
                 /\ faults' = IF Faultless(rep) THEN faults ELSE faults + 1
                 /\ wire' = wire \o rep.segs
                 /\ peer' = [reply |-> Flat(rep.segs), intact |-> rep.intact,
                             clean |-> wire = <<>>,
                             own |-> peer.own \o Flat(rep.segs)]
                 /\ UNCHANGED peerClosed
            \/ /\ MayFail
               /\ faults' = faults + 1
               /\ peerClosed' = TRUE
               /\ peer' = [NoPeer EXCEPT !.own = peer.own]
               /\ UNCHANGED wire
    /\ UNCHANGED <<arg, val, plan, retry, portIdx, devIdx, socks, opened, cmd, att, now,
                   ret, r63, uip, out, errs>>

\* the send error taken like a timeout: on to the next attempt
SendErr_NextAttempt ==
    /\ pc = "sendall"
    /\ MayFail
    /\ faults' = faults + 1
    /\ EndAttempt(now)
    /\ UNCHANGED <<arg, val, plan, retry, portIdx, devIdx, socks, opened, peerClosed,
                   wire, cmd, r63, uip, out, errs, sent, peer>>

\* sock.sendall(frame) raises OSError: return None
SendErr ==
    /\ pc = "sendall"
    /\ MayFail
    /\ faults' = faults + 1
    /\ Return(None, now)
    /\ UNCHANGED <<arg, val, plan, retry, portIdx, devIdx, socks, opened, peerClosed,
                   wire, cmd, r63, uip, out, errs, sent, peer>>

\* the test passing as soon as anything has been received
Enough_AnyByte(r) == Len(r) >= 1

\* if len(resp) >= 6
Enough(r) == Len(r) >= MIN_RESP

\* Time passes only inside sock.recv, so "while time.time() < deadline" holds
\* when the loop is entered (deadline = time.time() + TIMEOUT) and is tested
\* anew, at time t, by the step that took a chunk of fewer than 6 bytes.
\* sock.recv(256) returns the next segment after d hundredths; resp += chunk;
\* if len(resp) >= 6: return resp
RecvChunk ==
    /\ pc = "recv"
    /\ wire # <<>>
    /\ \E d \in Delays :
         LET chunk == SubSeq(Head(wire), 1, Min(Len(Head(wire)), RECV_MAX))
             left  == SubSeq(Head(wire), Len(chunk) + 1, Len(Head(wire)))
             got   == resp \o chunk
         IN
         /\ wire' = IF left = <<>> THEN Tail(wire) ELSE <<left>> \o Tail(wire)
         /\ peer' = [peer EXCEPT !.clean = @ /\ d = 0]
         /\ IF Enough(got)
            THEN Return(got, now + d)
            ELSE IF now + d < deadline
                 THEN /\ resp' = got
                      /\ now' = now + d
                      /\ UNCHANGED <<pc, ret, deadline, att>>
                 ELSE EndAttempt(now + d)
    /\ UNCHANGED <<arg, val, plan, retry, portIdx, devIdx, socks, opened, peerClosed,
                   cmd, r63, uip, out, errs, sent, faults>>

\* a socket without a timeout: recv waits for bytes that do not come
RecvTimeout_Blocks ==
    /\ pc = "recv"
    /\ ~(peerClosed /\ wire = <<>>)
    /\ UNCHANGED vars

\* sock.recv raises socket.timeout after the socket timeout: break.  Nothing
\* is under way, or the next segment is late.
RecvTimeout ==
    /\ pc = "recv"
    /\ ~(peerClosed /\ wire = <<>>)
    /\ wire # <<>> => MayFail
    /\ faults' = IF wire # <<>> THEN faults + 1 ELSE faults
    /\ EndAttempt(now + SOCK_TIMEOUT)
    /\ peer' = [peer EXCEPT !.clean = FALSE]
    /\ UNCHANGED <<arg, val, plan, retry, portIdx, devIdx, socks, opened, peerClosed,
                   wire, cmd, r63, uip, out, errs, sent>>

\* sock.recv returns b'' (the peer has closed): "if not chunk: break"
RecvClosed ==
    /\ pc = "recv"
    /\ peerClosed /\ wire = <<>>
    /\ EndAttempt(now)
    /\ UNCHANGED <<arg, val, plan, retry, portIdx, devIdx, socks, opened, peerClosed,
                   wire, cmd, r63, uip, out, errs, sent, peer, faults>>

----------------------------------------------------------------------------
(* The poll loop after each send_frame *)

\* crc16_modbus(r[:-2]) != r[-2:]
CrcMismatch(r) == crc16_modbus(PySlice(r, 0, -2)) # PyFrom(r, -2)

\* the checksum comparison left out of the test
NoAnswer_Unchecked(r) == r = None \/ r = <<>>

\* not r63 or crc16_modbus(r63[:-2]) != r63[-2:]
NoAnswer63(r) == r = None \/ r = <<>> \/ CrcMismatch(r)

\* the checksum comparison left out of the test for r27
NoAnswer27_Unchecked(r) == r = None \/ r = <<>>

\* not r27 or crc16_modbus(r27[:-2]) != r27[-2:]
NoAnswer27(r) == r = None \/ r = <<>> \/ CrcMismatch(r)

\* the slice starting at the command byte of the echo
Payload_FromCommand(r) == PySlice(r, 4, -2)

\* r[5:-2]
Payload(r) == PySlice(r, 5, -2)

\* print(f'{port:<5}|{serial:<8}| нет ответа 63h/CRC')
NoRespRow ==
    [port |-> CurPort, serial |-> CurSerial, kind |-> "noresp",
     U |-> Dash, I |-> Dash, P |-> Dash, T1 |-> Dash, T2 |-> Dash]

\* print(row.format(port, serial, U, I, P, '-', '-'))
PartialRow ==
    [port |-> CurPort, serial |-> CurSerial, kind |-> "partial",
     U |-> uip[1], I |-> uip[2], P |-> uip[3], T1 |-> Dash, T2 |-> Dash]

\* print(row.format(port, serial, U, I, P, T1, T2))
FullRow(t) ==
    [port |-> CurPort, serial |-> CurSerial, kind |-> "full",
     U |-> uip[1], I |-> uip[2], P |-> uip[3], T1 |-> t[1], T2 |-> t[2]]

\* The end of one iteration of "for serial in serials": the next serial is
\* taken.  r63, U, I, P, the value returned by send_frame, its command and its
\* clock are assigned anew before they are read again, so they are forgotten
\* here.
EndIteration ==
    /\ devIdx' = devIdx + 1
    /\ pc' = "device"
    /\ r63' = None
    /\ uip' = <<0, 0, 0>>
    /\ ret' = None
    /\ att' = 0
    /\ peer' = NoPeer
    /\ cmd' = "63"
    /\ now' = 0
    /\ UNCHANGED <<deadline, resp>>

\* an exception nothing catches: the script ends with a traceback
Raise ==
    /\ pc' = "abort"
    /\ UNCHANGED <<devIdx, r63, uip, ret, att, peer, cmd, now, deadline, resp,
                   out>>

\* r63 = send_frame(...) has returned: lines 113-119
Check63 ==
    /\ pc = "ret"
    /\ cmd = "63"
    /\ IF NoAnswer63(ret)
       THEN /\ out' = Append(out, NoRespRow)
            /\ EndIteration
       ELSE \E v \in {parse_63(Payload(ret))} :
            IF v = <<ValueError>>
            THEN Raise
            ELSE /\ r63' = ret
                 /\ uip' = v
                 /\ EnterSendFrame("27")
                 /\ peer' = NoPeer
                 /\ UNCHANGED <<out, devIdx>>
    /\ UNCHANGED <<arg, val, plan, retry, portIdx, socks, opened, peerClosed, wire, errs,
                   sent, faults>>

\* r27 = send_frame(...) has returned: lines 119-124
Check27 ==
    /\ pc = "ret"
    /\ cmd = "27"
    /\ IF NoAnswer27(ret)
       THEN /\ out' = Append(out, PartialRow)
            /\ EndIteration
       ELSE \E t \in {parse_27(Payload(ret))} :
            IF t = <<ValueError>>
            THEN Raise
            ELSE /\ out' = Append(out, FullRow(t))
                 /\ EndIteration
    /\ UNCHANGED <<arg, val, plan, retry, portIdx, socks, opened, peerClosed, wire, errs,
                   sent, faults>>

----------------------------------------------------------------------------

Next ==
    \/ ConnectOk
    \/ ConnectErr
    \/ Finish
    \/ ForSerial
    \/ Close
    \/ SendOk
    \/ SendErr
    \/ RecvChunk
    \/ RecvTimeout
    \/ RecvClosed
    \/ Check63
    \/ Check27

Spec == Init /\ [][Next]_vars

\* The script is a sequential program that runs until it ends: while a step is
\* possible one is taken.  Each call into the transport ends, with a result
\* or an exception: create_connection has timeout=2, sendall and recv the
\* socket timeout of 0.2 s.
FairSpec == Spec /\ WF_vars(Next)

----------------------------------------------------------------------------
(* The script polling one meter twice in a row on one connection, against a *)
(* scripted peer: arg holds, for each command, the reply the peer gives to  *)
(* every request of that command; the bytes on the stream are read without  *)
(* delay and nothing else fails.                                            *)

\* a serials.txt with the line "20003 548973 548973"
PlanTwice == (20003 :> <<548973, 548973>>)

\* the scripted peers: a reply for each command
Scripts == [Cmds -> UNION {PeerReplies(548973, c) : c \in Cmds}]

FakeInit ==
    /\ InitScript({PlanTwice}, RetryValues)
    /\ arg \in {[fn |-> "peer", in |-> f] :
                 f \in {g \in Scripts : \A c \in Cmds : g[c] \in PeerReplies(548973, c)}}
    /\ val = NoVal

\* the peer answers as scripted
FakeSendOk ==
    /\ SendOk
    /\ ~peerClosed'
    /\ wire' = wire \o arg.in[cmd].segs

\* recv returns at once what is on the stream
FakeRecvChunk == RecvChunk /\ now' = now

\* recv times out when nothing is on the stream
FakeRecvTimeout == RecvTimeout /\ wire = <<>>

FakeNext ==
    \/ ConnectOk
    \/ Finish
    \/ ForSerial
    \/ Close
    \/ FakeSendOk
    \/ FakeRecvChunk
    \/ FakeRecvTimeout
    \/ Check63
    \/ Check27

FakeSpec == FakeInit /\ [][FakeNext]_vars

----------------------------------------------------------------------------
(* The functions of the script applied on their own: crc16_modbus, the      *)
(* frame of send_frame, bcd_to_int, and the decoders on the payload of a    *)
(* response.  arg holds the argument, val the value once it is computed.    *)

\* Longest byte string given to crc16_modbus and bcd_to_int.
MaxLen == 3

\* the variables of the script
script == <<plan, retry, pc, portIdx, devIdx, socks, opened, peerClosed, wire,
            cmd, att, now, deadline, resp, ret, r63, uip, out, errs, sent,
            peer, faults>>

\* byte strings over S of length n or less
SeqsUpTo(S, n) == UNION {[1..k -> S] : k \in 0..n}

\* bytes with nibbles of both kinds: 00 07 12 34 1A A1 FF
PureBytes == {0, 7, 18, 52, 26, 161, 255}

\* b'123456789'
Ascii123456789 == <<49, 50, 51, 52, 53, 54, 55, 56, 57>>

\* arguments of crc16_modbus
CrcArgs == SeqsUpTo(PureBytes, MaxLen) \cup {Ascii123456789}

\* serials of six digits, as int(serial) reads them, and the commands
FrameSerials == {0, 1, 99999, 100000, 548973, 548974, 999999}
FrameArgs == {[serial |-> n, cmd |-> c] : n \in FrameSerials, c \in Cmds}

\* arguments of bcd_to_int
BcdArgs == SeqsUpTo(PureBytes, MaxLen)

\* bytes of the payload fields: 05 90
FieldBytes == {5, 144}

\* payload bytes the decoder of command c reads: p[4:7], p[4:8]
Needs(c) == IF c = "63" THEN 7 ELSE 8

\* responses handed to the decoder of command c: the echo, a payload of the
\* length the decoder reads, the checksum
Responses(c) ==
    {Sealed(Raw(548973, c) \o p) :
        p \in [1..Needs(c) -> FieldBytes] \cup {GoodPayload(c)}}

PureArgs ==
    {[fn |-> "crc", in |-> b] : b \in CrcArgs}
    \cup {[fn |-> "frame", in |-> a] : a \in FrameArgs}
    \cup {[fn |-> "bcd", in |-> b] : b \in BcdArgs}
    \cup {[fn |-> "parse_63", in |-> r] : r \in Responses("63")}
    \cup {[fn |-> "parse_27", in |-> r] : r \in Responses("27")}

PureInit ==
    /\ InitScript({PlanA}, {1})
    /\ arg \in PureArgs
    /\ val = NoVal

\* the function fn is applied to arg, v being its value
Apply(fn, v) ==
    /\ arg.fn = fn
    /\ val = NoVal
    /\ val' = [of |-> fn, v |-> v]
    /\ UNCHANGED <<arg, script>>

ApplyCrc == Apply("crc", crc16_modbus(arg.in))

\* send_frame(sock, f'{int(serial):08X}', cmd_hex): frame
ApplyFrame == Apply("frame", Frame(arg.in.serial, arg.in.cmd))

ApplyBcd == Apply("bcd", bcd_to_int(arg.in))

\* parse_63(r63[5:-2])
ApplyParse63 == Apply("parse_63", parse_63(Payload(arg.in)))

\* parse_27(r27[5:-2])
ApplyParse27 == Apply("parse_27", parse_27(Payload(arg.in)))

PureNext ==
    \/ ApplyCrc
    \/ ApplyFrame
    \/ ApplyBcd
    \/ ApplyParse63
    \/ ApplyParse27

PureSpec == PureInit /\ [][PureNext]_vars

----------------------------------------------------------------------------
(* Vocabulary of the properties *)

Last(q) == q[Len(q)]

\* the checksum recomputed over all bytes but the last two equals the last two
ChecksumValid(r) ==
    /\ r # None
    /\ Len(r) >= 2
    /\ crc16_modbus(SubSeq(r, 1, Len(r) - 2)) = SubSeq(r, Len(r) - 1, Len(r))

\* an exchange has returned r to the poll loop for command c
Returned(c) == pc = "ret" /\ cmd = c

\* frames sent so far to the device (p, s) with command c
FramesTo(q, p, s, c) ==
    {j \in 1..Len(q) : q[j].port = p /\ q[j].serial = s /\ q[j].cmd = c}

\* a frame is handed to the socket in this step
Sends == Len(sent') = Len(sent) + 1

----------------------------------------------------------------------------
(* C1 *)

\* C1: when the 63h exchange returns nothing or bytes that fail the checksum,
\* the next step prints the no-response row for that device, moves to the
\* next serial and sends nothing; a 27h frame is sent only while r63 holds a
\* checksum-valid response obtained for that same device; and no device with
\* a no-response row ever has a 27h frame among the frames sent.
C1_NoSecondaryWithoutValidPrimary ==
    [][ /\ (Returned("63") /\ ~ChecksumValid(ret)) =>
              /\ out' = Append(out, [port |-> CurPort, serial |-> CurSerial,
                                     kind |-> "noresp", U |-> Dash, I |-> Dash,
                                     P |-> Dash, T1 |-> Dash, T2 |-> Dash])
              /\ sent' = sent
              /\ pc' = "device" /\ devIdx' = devIdx + 1 /\ portIdx' = portIdx
        /\ (Sends /\ Last(sent').cmd = "27") =>
              /\ ChecksumValid(r63)
              /\ Last(sent').port = CurPort /\ Last(sent').serial = CurSerial
              /\ FramesTo(sent, CurPort, CurSerial, "63") # {}
        /\ \A i \in 1..Len(out') :
              out'[i].kind = "noresp" =>
                  FramesTo(sent', out'[i].port, out'[i].serial, "27") = {}
      ]_vars

\* the second meter of a port has answered 63h with bytes that fail the
\* checksum, after a 27h frame went to the first meter
C1_Witness ==
    /\ Returned("63") /\ ret # None /\ ~ChecksumValid(ret)
    /\ devIdx = 2
    /\ \E j \in 1..Len(sent) : sent[j].cmd = "27"

----------------------------------------------------------------------------
(* C2 *)

\* C2: when the 27h exchange returns nothing or bytes that fail the checksum
\* (the 63h response of the device being checksum-valid), the next step prints
\* the partial row for that device: U, I, P decoded from the 63h payload, both
\* tariffs '-'; it moves to the next serial with the same socket open; and
\* from there the next serial of the port is polled on that socket.
C2_PartialThenNextDevice ==
    [][ /\ (Returned("27") /\ ~ChecksumValid(ret)) =>
              LET d == parse_63(Payload(r63)) IN
              /\ ChecksumValid(r63)
              /\ d # <<ValueError>> /\ \A k \in 1..3 : d[k] >= 0
              /\ out' = Append(out, [port |-> CurPort, serial |-> CurSerial,
                                     kind |-> "partial", U |-> d[1], I |-> d[2],
                                     P |-> d[3], T1 |-> Dash, T2 |-> Dash])
              /\ pc' = "device" /\ devIdx' = devIdx + 1 /\ portIdx' = portIdx
              /\ socks' = socks /\ CurPort \in socks
        /\ (pc = "device" /\ devIdx <= Len(Serials)) =>
              /\ pc' = "sendall" /\ cmd' = "63"
              /\ devIdx' = devIdx /\ portIdx' = portIdx
              /\ socks' = socks /\ CurPort \in socks
      ]_vars

\* the first meter of a port got a partial row and the second meter of the
\* port is being polled on the open socket
C2_Witness ==
    /\ Len(out) = 1 /\ out[1].kind = "partial" /\ out[1].U # Dash
    /\ InSendFrame /\ devIdx = 2 /\ CurPort \in socks
    /\ sent # <<>> /\ Last(sent).serial = CurSerial

----------------------------------------------------------------------------
(* C3 *)

\* C3: the pass is never aborted, and when it ends every port of the plan was
\* visited: its connection failed, or each of its devices has exactly one row.
C3_PassNeverAborted ==
    /\ pc # "abort"
    /\ pc = "done" =>
         \A p \in DOMAIN plan :
            \/ \E i \in 1..Len(errs) : errs[i] = p
            \/ \A k \in 1..Len(plan[p]) :
                 Cardinality({i \in 1..Len(out) :
                     out[i].port = p /\ out[i].serial = plan[p][k]}) = 1

----------------------------------------------------------------------------
(* C4 *)

\* C4: send_frame returns None only when all RETRY attempts have been made.
C4_AbsenceOnlyAfterAllAttempts ==
    (pc = "ret" /\ ret = None) => att = retry

----------------------------------------------------------------------------
(* C5 *)

\* C5: bytes that fail the checksum reach the no-response handling of the
\* poll loop only when all RETRY attempts have been used.
C5_ChecksumFailureRetried ==
    (pc = "ret" /\ ret # None /\ ~ChecksumValid(ret)) => att = retry

----------------------------------------------------------------------------
(* C6 *)

\* the attempt under way ends in this step without a response
AttemptEndsEmpty ==
    /\ pc = "recv"
    /\ pc' = "sendall" \/ (pc' = "ret" /\ ret' = None)

\* C6: with the connection open, an attempt ends without a response only when
\* the budget TIMEOUT has elapsed since the send.
C6_AttemptLastsWholeBudget ==
    [][ (AttemptEndsEmpty /\ ~peerClosed) => now' >= deadline ]_vars

----------------------------------------------------------------------------
(* C7 *)

\* C7: when the peer answers a request with its complete checksum-valid
\* response, nothing else being under way and no segment late, the exchange
\* returns that response, whatever the segmentation.
C7_FullFrameReturned ==
    (pc = "ret" /\ peer.intact /\ peer.clean) => ret = peer.reply

----------------------------------------------------------------------------
(* C8 *)

\* C8: at most one socket is open at any time, none while the next one is
\* about to be created, and none when the pass has ended.
C8_SocketsClosed ==
    /\ Cardinality(socks) <= 1
    /\ pc \in {"connect", "done", "abort"} => socks = {}

----------------------------------------------------------------------------
(* C9 *)

\* C9: a checksum-valid response whose payload is shorter than its decoder
\* reads is answered by a malformed-payload row for the device, and by
\* nothing else.
C9_ShortPayloadReported ==
    [][ (pc = "ret" /\ ChecksumValid(ret) /\ Len(Payload(ret)) < Needs(cmd)) =>
            /\ Len(out') = Len(out) + 1
            /\ Last(out').kind = "malformed"
            /\ pc' = "device"
      ]_vars

----------------------------------------------------------------------------
(* C10 *)

\* the connection of the current port fails in this step
ConnectFails == pc = "connect" /\ faults' = faults + 1

\* C10: a failed connection prints one line for its port, sends nothing,
\* opens nothing and continues with the next port; a port with a failure line
\* has exactly one and has no frame among the frames sent.
C10_ConnectFailureSkipsPort ==
    [][ /\ ConnectFails =>
              /\ errs' = Append(errs, CurPort)
              /\ sent' = sent /\ out' = out /\ socks' = socks
              /\ pc' = "connect" /\ portIdx' = portIdx + 1
        /\ \A i \in 1..Len(errs') :
              /\ \A j \in 1..Len(errs') : errs'[j] = errs'[i] => j = i
              /\ \A j \in 1..Len(sent') : sent'[j].port # errs'[i]
      ]_vars

\* the connection of the first port failed and a frame went to a meter of
\* the next port
C10_Witness ==
    /\ Len(Ports) = 2
    /\ errs = <<Ports[1]>>
    /\ sent # <<>> /\ Last(sent).port = Ports[2]

----------------------------------------------------------------------------
(* C11 *)

\* a recv of this step has taken a segment from the stream
Reads == pc = "recv" /\ wire # <<>> /\ wire' # wire

\* C11: every value other than None returned by send_frame has at least 6
\* bytes; the loop never goes on reading with 6 bytes or more accumulated; the
\* first recv after which resp has at least 6 bytes returns resp, reading
\* nothing further, and a recv leaving fewer than 6 bytes returns no bytes;
\* what an attempt had accumulated when it ended is emptied by the next
\* attempt and is not what send_frame returns.
C11_ReturnsAtSixBytes ==
    [][ /\ (pc' = "ret" /\ ret' # None) => Len(ret') >= 6
        /\ pc = "recv" => Len(resp) < 6
        /\ Reads =>
              LET got == resp \o Head(wire) IN
              IF Len(got) >= 6
              THEN pc' = "ret" /\ ret' = got /\ wire' = Tail(wire)
              ELSE pc' = "ret" => ret' = None
        /\ (pc = "recv" /\ pc' = "sendall") => ret' = ret
        /\ (pc = "sendall" /\ pc' = "recv") => resp' = <<>>
      ]_vars

\* send_frame has returned the first 6 bytes of a reply whose other bytes are
\* still in the stream
C11_Witness ==
    /\ pc = "ret" /\ ret # None /\ Len(ret) = 6
    /\ wire # <<>>
    /\ peer.intact /\ ret = SubSeq(peer.reply, 1, 6)

----------------------------------------------------------------------------
(* C12 *)

\* an attempt's send succeeds in this step
AttemptStarts == pc = "sendall" /\ pc' = "recv"

\* C12: every attempt, after its send, takes its deadline anew as the time of
\* that send plus TIMEOUT, whatever time the attempts before it have spent,
\* and empties resp.
C12_DeadlinePerAttempt ==
    [][ AttemptStarts =>
            /\ now' = now
            /\ deadline' = now' + TIMEOUT
            /\ resp' = <<>>
      ]_vars

\* the second attempt of an exchange has sent its frame, time having passed in
\* the first attempt, which had read the first byte of a reply that came byte
\* by byte
C12_Witness ==
    /\ pc = "recv" /\ att = 2
    /\ now >= SOCK_TIMEOUT /\ deadline = now + TIMEOUT
    /\ resp = <<>>
    /\ Len(peer.own) >= 6
    /\ wire # <<>> /\ Head(wire) = <<peer.own[2]>>

----------------------------------------------------------------------------
(* C13 *)

\* C13: for every byte string b, the empty one included, crc16_modbus(b) is
\* two bytes and b + crc16_modbus(b) passes the test of the poll loop (it is
\* not empty and the checksum of all its bytes but the last two equals the
\* last two); the checksum of b'123456789' is 0x4B37, low byte first.  Every
\* request frame has 7 bytes: the serial as 4 bytes, high byte first, the
\* command byte, and the checksum of these 5 bytes, low byte first; it passes
\* the same test; the frame of serial 548973 and command 63h is
\* 00 08 60 6D 63 4A C7.
C13_ChecksumSelfConsistent ==
    /\ val.of = "crc" =>
          /\ Len(val.v) = 2
          /\ ~NoAnswer63(arg.in \o val.v)
          /\ ChecksumValid(arg.in \o val.v)
          /\ arg.in = Ascii123456789 => val.v = <<55, 75>>
    /\ val.of = "frame" =>
          LET f == val.v IN
          /\ Len(f) = 7
          /\ 16777216 * f[1] + 65536 * f[2] + 256 * f[3] + f[4] = arg.in.serial
          /\ f[5] = (IF arg.in.cmd = "63" THEN 99 ELSE 39)
          /\ ~NoAnswer63(f)
          /\ ChecksumValid(f)
          /\ (arg.in.serial = 548973 /\ arg.in.cmd = "63") =>
                 f = <<0, 8, 96, 109, 99, 74, 199>>

\* the frame of serial 548973 and command 63h has been built
C13_Witness ==
    /\ val.of = "frame"
    /\ arg.in = [serial |-> 548973, cmd |-> "63"]
    /\ Len(val.v) = 7

----------------------------------------------------------------------------
(* C14 *)

\* every nibble of b is a decimal digit
AllDecimal(b) == \A i \in 1..Len(b) : (b[i] \div 16) <= 9 /\ (b[i] % 16) <= 9

\* the number written by the nibbles of b as decimal digits, in the order of
\* the bytes, the high nibble of a byte before its low nibble
RECURSIVE DecimalOf(_)
DecimalOf(b) ==
    IF b = <<>> THEN 0
    ELSE 100 * DecimalOf(SubSeq(b, 1, Len(b) - 1))
         + 10 * (b[Len(b)] \div 16) + (b[Len(b)] % 16)

\* C14: for a byte string whose nibbles are all 0..9, bcd_to_int returns the
\* number whose decimal digits are the nibbles in order, high nibble first:
\* leading zeros do not count, the empty string and the strings of zeros give
\* 0, 12 34 gives 1234 and 00 00 07 gives 7; for a byte string with a nibble
\* above 9 it raises ValueError.
C14_BcdDecodes ==
    val.of = "bcd" =>
        /\ IF AllDecimal(arg.in)
           THEN val.v = DecimalOf(arg.in) /\ val.v >= 0
           ELSE val.v = ValueError
        /\ (\A i \in 1..Len(arg.in) : arg.in[i] = 0) => val.v = 0
        /\ arg.in = <<18, 52>> => val.v = 1234
        /\ arg.in = <<0, 0, 7>> => val.v = 7

\* bcd_to_int has been applied to 00 12 34
C14_Witness ==
    /\ val.of = "bcd"
    /\ arg.in = <<0, 18, 52>>
    /\ val.v = 1234

----------------------------------------------------------------------------
(* C15 *)

\* the bytes of response r between its 5-byte echo and its 2-byte checksum
Between(r) == SubSeq(r, 6, Len(r) - 2)

\* C15: the decoders are given the bytes of the response between the 5-byte
\* echo and the 2-byte checksum.  parse_63 reads bytes [0,2) as U in tenths of
\* a volt, [2,4) as I in hundredths of an ampere and [4,7) as P in watts;
\* parse_27 reads [0,4) and [4,8) as T1 and T2 in hundredths of a kWh.
\* 02 30 01 00 00 05 00 gives 23.0 V, 1.00 A, 500 W and
\* 00 01 23 45 00 06 78 90 gives 123.45 and 678.90 kWh.
C15_DecodersReadPayloadFields ==
    /\ val.of = "parse_63" =>
          LET p == Between(arg.in) IN
          /\ val.v = <<DecimalOf(SubSeq(p, 1, 2)), DecimalOf(SubSeq(p, 3, 4)),
                       DecimalOf(SubSeq(p, 5, 7))>>
          /\ p = <<2, 48, 1, 0, 0, 5, 0>> => val.v = <<230, 100, 500>>
    /\ val.of = "parse_27" =>
          LET p == Between(arg.in) IN
          /\ val.v = <<DecimalOf(SubSeq(p, 1, 4)), DecimalOf(SubSeq(p, 5, 8))>>
          /\ p = <<0, 1, 35, 69, 0, 6, 120, 144>> => val.v = <<12345, 67890>>

\* parse_27 has been applied to the payload 00 01 23 45 00 06 78 90 of a
\* response
C15_Witness ==
    /\ val.of = "parse_27"
    /\ Len(arg.in) = 15
    /\ Between(arg.in) = <<0, 1, 35, 69, 0, 6, 120, 144>>
    /\ val.v = <<12345, 67890>>

----------------------------------------------------------------------------
(* C16 *)

\* the place of serial x in the list q of a port
PlaceIn(q, x) == CHOOSE i \in 1..Len(q) : q[i] = x

\* record a, of a frame sent or of a row printed, comes no later in the plan
\* than record b: a smaller port, or the same port and no later place
NoLater(a, b) ==
    \/ a.port < b.port
    \/ /\ a.port = b.port
       /\ PlaceIn(plan[a.port], a.serial) <= PlaceIn(plan[a.port], b.serial)

\* C16: frames are sent, and rows printed, port by port in ascending order of
\* the port number and, within a port, device by device in the order of the
\* plan; for one device no 63h frame follows a 27h frame; a frame is sent
\* only by the exchange under way, for its device and command; a 27h frame
\* is sent only when the 63h exchange has returned a response; and the
\* script passes to another command, device or port only when no exchange is
\* under way.
C16_SequentialInPlanOrder ==
    [][ /\ \A i, j \in 1..Len(sent') :
              i < j =>
                  /\ NoLater(sent'[i], sent'[j])
                  /\ (sent'[i].port = sent'[j].port
                      /\ sent'[i].serial = sent'[j].serial
                      /\ sent'[i].cmd = "27") => sent'[j].cmd = "27"
        /\ \A i, j \in 1..Len(out') :
              i < j => NoLater(out'[i], out'[j]) /\ out'[i] # out'[j]
        /\ Sends =>
              /\ InSendFrame
              /\ Last(sent').port = CurPort
              /\ Last(sent').serial = CurSerial
              /\ Last(sent').cmd = cmd
              /\ cmd = "27" => r63 # None
        /\ (cmd' # cmd \/ devIdx' # devIdx \/ portIdx' # portIdx) =>
              ~InSendFrame
      ]_vars

\* a plan listing port 20004 before port 20003: a frame went to the meter of
\* port 20003 first, and a frame has gone to the meter of port 20004
C16_Witness ==
    /\ plan = PlanB
    /\ Len(sent) >= 2
    /\ sent[1].port = 20003
    /\ Last(sent).port = 20004

----------------------------------------------------------------------------
(* C17 *)

\* the script has ended: after its last line, or with a traceback
Ended == pc \in {"done", "abort"}

----------------------------------------------------------------------------
(* C18 *)

\* C18: a meter polled twice in a row on one connection, the peer answering
\* each command the same way both times, gets the same row both times.
C18_SecondPollSameAsFirst ==
    (pc = "done" /\ Len(out) = 2) => out[2] = out[1]

----------------------------------------------------------------------------
(* C19 *)

\* the bytes of r stand, in a row, somewhere in b
Infix(r, b) ==
    \E k \in 0..(Len(b) - Len(r)) : SubSeq(b, k + 1, k + Len(r)) = r

\* C19: the bytes send_frame returns are bytes the peer sent in answer to the
\* requests of this very call of send_frame, in the order it sent them.
C19_OnlyOwnReplyReturned ==
    (pc = "ret" /\ ret # None) => Infix(ret, peer.own)

----------------------------------------------------------------------------
(* C20 *)

\* the number of frames sent to the device at place i of port p with command c
Frames(q, p, i, c) == Cardinality(FramesTo(q, p, plan[p][i], c))

\* C20: one exchange sends at most RETRY frames, and none once sendall has
\* failed: the exchange returns None at once; a device gets at most RETRY
\* frames of each command, 2*RETRY in all; a connection is created only by
\* the loop over the ports, once for each port it comes to, also when the
\* peer has closed the connection before.
C20_FramesBounded ==
    [][ /\ \A p \in DOMAIN plan : \A i \in 1..Len(plan[p]) :
              /\ \A c \in Cmds : Frames(sent', p, i, c) <= retry
              /\ Frames(sent', p, i, "63") + Frames(sent', p, i, "27") <= 2 * retry
        /\ Sends => att <= retry /\ Frames(sent', CurPort, devIdx, cmd) <= att
        /\ (pc = "sendall" /\ ~Sends) => pc' = "ret" /\ ret' = None
        /\ opened' # opened =>
              /\ opened' = opened + 1
              /\ pc = "connect"
              /\ portIdx = opened + Len(errs) + 1
              /\ socks = {}
        /\ portIdx' >= portIdx
        /\ opened' <= Len(Ports)
      ]_vars

\* RETRY = 2: the device polled has been sent two 63h frames and two 27h
\* frames
C20_Witness ==
    /\ retry = 2
    /\ pc = "ret" /\ cmd = "27"
    /\ Frames(sent, CurPort, devIdx, "63") = 2
    /\ Frames(sent, CurPort, devIdx, "27") = 2

====
